---------------------------- MODULE Spec2Model ----------------------------
(***************************************************************************)
(* Shape-level model of pyhealth/models/ecg/deepres1d.py: the residual     *)
(* block (_ResnetBlock), the predictor network (callPredictor) and the     *)
(* controller (DeepRES1D).  Tensors are modelled by their shapes; a layer  *)
(* is modelled by the shape it produces and by the inputs it rejects.      *)
(***************************************************************************)
EXTENDS Integers, Sequences, FiniteSets, TLC

(***************************************************************************)
(* Bounds of the model.                                                    *)
(***************************************************************************)
MaxLen == 72          \* longest input sequence fed to a network
MaxBatch == 2         \* largest batch fed to a network
MaxChannel == 1       \* largest channel count of a probe tensor
MaxEmbed == 2         \* largest n_embed_channel of a stand-alone block
MaxFcLayers == 2      \* longest fc_size list
MaxLabel == 2         \* largest label count
MaxEpoch == 2         \* the n_epoch of a long run; 0 and 1 are always tried
MaxFeat == 2          \* largest channel count of a dataset descriptor
MaxWrap == 1          \* deepest nesting of DataParallel wrappers explored

(***************************************************************************)
(* The state of the controller.                                            *)
(***************************************************************************)
VARIABLES
    pc,            \* where the controller is: new, failed, idle, or inside fit
    args,          \* the hyperparameters the constructor stored
    error,         \* the message of the assertion that failed in the constructor
    device,        \* self.device ("unset" until resolved)
    dataparallal,  \* self.dataparallal
    is_loadmodel,  \* self.is_loadmodel
    task_type,     \* self.task_type
    label_size,    \* self.label_size (0 until _data_check sets it)
    n_channel,     \* self.n_channel (0 until a reader sets it)
    predictor,     \* self.predictor
    criterion,     \* self.criterion
    optimizer,     \* self.optimizer (its name, "" until built)
    train_reader,  \* fit's local train_reader
    valid_reader,  \* fit's local valid_reader
    call,          \* the descriptors of the fit call in progress
    config_file,   \* the persisted model configuration
    built_config,  \* the configuration _build_model last built and persisted
    last           \* how the last call ended

cvars == << pc, args, error, device, dataparallal, is_loadmodel, task_type,
            label_size, n_channel, predictor, criterion, optimizer,
            train_reader, valid_reader, call, config_file, built_config, last >>

(***************************************************************************)
(* Tensors (by shape) and failures.  err = "" is a tensor of that shape;   *)
(* otherwise err names the layer that raised and shape is <<>>.            *)
(***************************************************************************)
Tensor(shape) == [shape |-> shape, err |-> ""]

Raise(name) == [shape |-> <<>>, err |-> name]

IsOk(x) == x.err = ""

(***************************************************************************)
(* Layers.                                                                 *)
(***************************************************************************)
Conv1d(name, cin, cout, k, s, p) ==
    [kind |-> "conv", name |-> name, cin |-> cin, cout |-> cout,
     k |-> k, s |-> s, p |-> p, convs |-> <<>>, shortcut |-> <<>>]

BatchNorm1d(name, c) ==
    [kind |-> "norm", name |-> name, cin |-> c, cout |-> c,
     k |-> 0, s |-> 0, p |-> 0, convs |-> <<>>, shortcut |-> <<>>]

ReLU(name) ==
    [kind |-> "relu", name |-> name, cin |-> 0, cout |-> 0,
     k |-> 0, s |-> 0, p |-> 0, convs |-> <<>>, shortcut |-> <<>>]

Tanh(name) ==
    [kind |-> "tanh", name |-> name, cin |-> 0, cout |-> 0,
     k |-> 0, s |-> 0, p |-> 0, convs |-> <<>>, shortcut |-> <<>>]

MaxPool1d(name, k, s, p) ==
    [kind |-> "pool", name |-> name, cin |-> 0, cout |-> 0,
     k |-> k, s |-> s, p |-> p, convs |-> <<>>, shortcut |-> <<>>]

Linear(name, in_f, out_f) ==
    [kind |-> "linear", name |-> name, cin |-> in_f, cout |-> out_f,
     k |-> 0, s |-> 0, p |-> 0, convs |-> <<>>, shortcut |-> <<>>]

\* _ResnetBlock.__init__: the main path (convs) and the shortcut path.
ResnetBlockConvs(n_in_channel, n_embed_channel) ==
    << Conv1d("conv1", n_in_channel, n_embed_channel, 1, 2, 0),
       BatchNorm1d("norm1", n_embed_channel),
       ReLU("relu1"),
       Conv1d("conv2", n_embed_channel, n_embed_channel, 3, 1, 1),
       BatchNorm1d("norm2", n_embed_channel),
       ReLU("relu3"),
       Conv1d("conv3", n_embed_channel, 4 * n_embed_channel, 1, 1, 0),
       BatchNorm1d("norm3", 4 * n_embed_channel) >>

\* A shortcut convolution that forgets its padding.
ResnetBlockShortcutNoPad(n_in_channel, n_embed_channel) ==
    << Conv1d("shortcut", n_in_channel, 4 * n_embed_channel, 3, 2, 0),
       BatchNorm1d("norm0", 4 * n_embed_channel) >>

ResnetBlockShortcut(n_in_channel, n_embed_channel) ==
    << Conv1d("shortcut", n_in_channel, 4 * n_embed_channel, 3, 2, 1),
       BatchNorm1d("norm0", 4 * n_embed_channel) >>

ResnetBlock(name, n_in_channel, n_embed_channel) ==
    [kind |-> "block", name |-> name,
     cin |-> n_in_channel, cout |-> 4 * n_embed_channel,
     k |-> 0, s |-> 0, p |-> 0,
     convs |-> ResnetBlockConvs(n_in_channel, n_embed_channel),
     shortcut |-> ResnetBlockShortcut(n_in_channel, n_embed_channel)]

(***************************************************************************)
(* What one layer does to a shape.  training is the module's mode          *)
(* (nn.Module.training): batch normalisation in training mode needs more   *)
(* than one value per channel.                                             *)
(***************************************************************************)
WindowLen(l, k, s, p) == ((l + 2 * p - k) \div s) + 1

ApplyConv(layer, x) ==
    IF Len(x.shape) # 3 \/ x.shape[2] # layer.cin
           \/ x.shape[3] + 2 * layer.p < layer.k
    THEN Raise(layer.name)
    ELSE Tensor(<< x.shape[1], layer.cout,
                   WindowLen(x.shape[3], layer.k, layer.s, layer.p) >>)

ApplyNorm(layer, x, training) ==
    IF Len(x.shape) # 3 \/ x.shape[2] # layer.cin
           \/ (training /\ x.shape[1] * x.shape[3] = 1)
    THEN Raise(layer.name)
    ELSE x

ApplyPool(layer, x) ==
    IF Len(x.shape) # 3 \/ WindowLen(x.shape[3], layer.k, layer.s, layer.p) < 1
    THEN Raise(layer.name)
    ELSE Tensor(<< x.shape[1], x.shape[2],
                   WindowLen(x.shape[3], layer.k, layer.s, layer.p) >>)

ApplyLinear(layer, x) ==
    IF Len(x.shape) = 0 \/ x.shape[Len(x.shape)] # layer.cin
    THEN Raise(layer.name)
    ELSE Tensor([x.shape EXCEPT ![Len(x.shape)] = layer.cout])

\* F.relu(self.convs(x) + self.shortcut(x)): tensor addition broadcasts, so
\* the two shapes must agree in every dimension or have size 1 there.
Broadcastable(a, b) ==
    /\ Len(a) = Len(b)
    /\ \A i \in 1..Len(a) : a[i] = b[i] \/ a[i] = 1 \/ b[i] = 1

AddTensors(name, m, sc) ==
    IF ~IsOk(m) THEN m
    ELSE IF ~IsOk(sc) THEN sc
    ELSE IF ~Broadcastable(m.shape, sc.shape) THEN Raise(name)
    ELSE Tensor([i \in 1..Len(m.shape) |->
                    IF m.shape[i] >= sc.shape[i] THEN m.shape[i] ELSE sc.shape[i]])

RECURSIVE ApplySeq(_, _, _)
ApplyLayer(layer, x, training) ==
    IF ~IsOk(x) THEN x
    ELSE CASE layer.kind = "conv"   -> ApplyConv(layer, x)
           [] layer.kind = "norm"   -> ApplyNorm(layer, x, training)
           [] layer.kind = "pool"   -> ApplyPool(layer, x)
           [] layer.kind = "linear" -> ApplyLinear(layer, x)
           [] layer.kind = "block"  ->
                 AddTensors(layer.name, ApplySeq(layer.convs, x, training),
                            ApplySeq(layer.shortcut, x, training))
           [] OTHER -> x

\* nn.Sequential.forward: the layers in order.
ApplySeq(layers, x, training) ==
    IF layers = <<>> THEN x
    ELSE ApplySeq(Tail(layers), ApplyLayer(Head(layers), x, training), training)

\* _ResnetBlock.forward
ResnetBlockForward(n_in_channel, n_embed_channel, x, training) ==
    ApplyLayer(ResnetBlock("block", n_in_channel, n_embed_channel), x, training)

CeilHalf(n) == (n + 1) \div 2

(***************************************************************************)
(* callPredictor.                                                          *)
(***************************************************************************)
\* A stem whose max-pooling forgets its padding.
FeaturesPoolNoPad(in_channel) ==
    << Conv1d("conv0", in_channel, 32, 5, 2, 0),
       BatchNorm1d("norm0", 32),
       ReLU("relu0"),
       MaxPool1d("pool0", 5, 2, 0),
       ResnetBlock("resnetblock_1", 32, 32),
       ResnetBlock("resnetblock_2", 128, 64),
       ResnetBlock("resnetblock_3", 256, 128),
       ResnetBlock("resnetblock_4", 512, 256) >>

\* A body whose third block has embed width 256 instead of 128.
FeaturesWideBlock3(in_channel) ==
    << Conv1d("conv0", in_channel, 32, 5, 2, 0),
       BatchNorm1d("norm0", 32),
       ReLU("relu0"),
       MaxPool1d("pool0", 5, 2, 2),
       ResnetBlock("resnetblock_1", 32, 32),
       ResnetBlock("resnetblock_2", 128, 64),
       ResnetBlock("resnetblock_3", 256, 256),
       ResnetBlock("resnetblock_4", 1024, 256) >>

\* self.features: the stem and the four residual blocks.
Features(in_channel) ==
    << Conv1d("conv0", in_channel, 32, 5, 2, 0),
       BatchNorm1d("norm0", 32),
       ReLU("relu0"),
       MaxPool1d("pool0", 5, 2, 2),
       ResnetBlock("resnetblock_1", 32, 32),
       ResnetBlock("resnetblock_2", 128, 64),
       ResnetBlock("resnetblock_3", 256, 128),
       ResnetBlock("resnetblock_4", 512, 256) >>

\* A loop that never updates in_f.
InFStale(fc_size, idx) == 1024

\* in_f at the top of iteration idx of the loop over fc_size (idx from 1),
\* and after the loop when idx = Len(fc_size) + 1.
InF(fc_size, idx) == IF idx = 1 THEN 1024 ELSE fc_size[idx - 1]

\* self.fclayers: a Linear and a Tanh per entry of fc_size.
FcLayers(fc_size) ==
    [j \in 1..(2 * Len(fc_size)) |->
        IF j % 2 = 1
        THEN Linear("fc", InF(fc_size, (j + 1) \div 2), fc_size[(j + 1) \div 2])
        ELSE Tanh("fc_actfunc")]

Classifier(fc_size, n_label) ==
    Linear("classifier", InF(fc_size, Len(fc_size) + 1), n_label)

\* callPredictor.__init__
CallPredictor(in_channel, fc_size, n_label) ==
    [features   |-> Features(in_channel),
     fclayers   |-> FcLayers(fc_size),
     classifier |-> Classifier(fc_size, n_label)]

\* nn.AdaptiveAvgPool1d(1)
AdaptiveAvgPool(x) ==
    IF ~IsOk(x) THEN x
    ELSE IF Len(x.shape) # 3 \/ x.shape[3] < 1 THEN Raise("avgpool")
    ELSE Tensor(<< x.shape[1], x.shape[2], 1 >>)

\* torch.flatten(out, 1): dimensions 1.. (0-based) merged into one.
Flatten(x) ==
    IF ~IsOk(x) THEN x
    ELSE Tensor(<< x.shape[1], x.shape[2] * x.shape[3] >>)

\* callPredictor.forward after features = self.features(x).
ForwardHead(net, features, training) ==
    ApplyLayer(net.classifier,
        ApplySeq(net.fclayers, Flatten(AdaptiveAvgPool(features)), training),
        training)

\* callPredictor.forward
Forward(net, x, training) ==
    ForwardHead(net, ApplySeq(net.features, x, training), training)

(***************************************************************************)
(* Inputs.                                                                 *)
(***************************************************************************)
SeqsUpTo(S, n) == UNION { [1..m -> S] : m \in 0..n }

\* Widths an fc layer is configured with: those of the default fc_size.
FcWidths == {64, 16}

FcSizes == SeqsUpTo(FcWidths, MaxFcLayers)

\* A probe of a stand-alone residual block, and a probe of a predictor.
BlockProbes ==
    [kind : {"block"}, batch : 1..MaxBatch, L : 1..MaxLen, training : BOOLEAN,
     n_in_channel : 1..MaxChannel, n_embed_channel : 1..MaxEmbed,
     fc_size : {<<>>}, label_size : {1}]

PredictorProbes ==
    [kind : {"predictor"}, batch : 1..MaxBatch, L : 1..MaxLen, training : BOOLEAN,
     n_in_channel : 1..MaxChannel, n_embed_channel : {1},
     fc_size : FcSizes, label_size : 1..MaxLabel]

NoTensor == Raise("none")

\* The tensors after each layer of a Sequential, in order.
RECURSIVE SeqTrace(_, _, _)
SeqTrace(layers, x, training) ==
    IF layers = <<>> THEN <<>>
    ELSE LET y == ApplyLayer(Head(layers), x, training)
         IN  << y >> \o SeqTrace(Tail(layers), y, training)

VARIABLES probe, applied, main_out, short_out, stages, out

svars == << probe, applied, main_out, short_out, stages, out >>

ProbeTensor == Tensor(<< probe.batch, probe.n_in_channel, probe.L >>)

\* No probe in flight (the controller's specification).
ShapeIdle ==
    /\ probe = CHOOSE q \in BlockProbes : TRUE
    /\ applied = "idle"
    /\ main_out = NoTensor
    /\ short_out = NoTensor
    /\ stages = <<>>
    /\ out = NoTensor

ShapeInit ==
    /\ probe \in BlockProbes \cup PredictorProbes
    /\ applied = "none"
    /\ main_out = NoTensor
    /\ short_out = NoTensor
    /\ stages = <<>>
    /\ out = NoTensor

\* Feed the probe tensor to a stand-alone residual block.
ApplyBlock ==
    /\ applied = "none" /\ probe.kind = "block"
    /\ applied' = "block"
    /\ main_out' = ApplySeq(ResnetBlockConvs(probe.n_in_channel, probe.n_embed_channel),
                            ProbeTensor, probe.training)
    /\ short_out' = ApplySeq(ResnetBlockShortcut(probe.n_in_channel, probe.n_embed_channel),
                             ProbeTensor, probe.training)
    /\ out' = ResnetBlockForward(probe.n_in_channel, probe.n_embed_channel,
                                 ProbeTensor, probe.training)
    /\ UNCHANGED << probe, stages, cvars >>

\* Feed the probe tensor to a predictor built for its channel count; stages
\* keeps the tensor after each layer of self.features.
ApplyPredictor ==
    /\ applied = "none" /\ probe.kind = "predictor"
    /\ applied' = "predictor"
    /\ LET net == CallPredictor(probe.n_in_channel, probe.fc_size, probe.label_size)
           trace == SeqTrace(net.features, ProbeTensor, probe.training)
       IN  /\ stages' = trace
           /\ out' = ForwardHead(net, trace[Len(trace)], probe.training)
    /\ UNCHANGED << probe, main_out, short_out, cvars >>

ShapeNext == ApplyBlock \/ ApplyPredictor

(***************************************************************************)
(* Properties of the shape arithmetic, checked under ShapeSpec.            *)
(***************************************************************************)
Pooled == Flatten(AdaptiveAvgPool(stages[Len(stages)]))

BlockOutShape == << probe.batch, 4 * probe.n_embed_channel, CeilHalf(probe.L) >>

\* Batch normalisation of the block accepts the probe.
BlockNormAccepts == ~probe.training \/ probe.batch * CeilHalf(probe.L) > 1

\* C1 as stated: for every batch >= 1 and L >= 1 the residual block maps
\* (batch, n_in_channel, L) to (batch, 4*n_embed_channel, ceil(L/2)), both
\* paths producing that same shape.
C1_BlockShapeEveryInput ==
    applied = "block" =>
        /\ out = Tensor(BlockOutShape)
        /\ main_out = Tensor(BlockOutShape)
        /\ short_out = Tensor(BlockOutShape)

\* C1 amended: the same whenever the block's batch normalisation accepts the
\* input (evaluation mode, or batch * ceil(L/2) > 1); otherwise, in training
\* mode with a single value per channel, the block raises in a
\* normalisation layer.
C1_BlockShape ==
    applied = "block" =>
        /\ BlockNormAccepts =>
              /\ out = Tensor(BlockOutShape)
              /\ main_out = Tensor(BlockOutShape)
              /\ short_out = Tensor(BlockOutShape)
        /\ ~BlockNormAccepts =>
              /\ out = Raise("norm1")
              /\ main_out = Raise("norm1")
              /\ short_out = Raise("norm0")

C1_Witness ==
    /\ applied = "block"
    /\ probe.L = 5 /\ probe.n_in_channel # probe.n_embed_channel
    /\ out = Tensor(<< probe.batch, 4 * probe.n_embed_channel, 3 >>)

\* C2: whenever the forward pass succeeds the output shape is exactly
\* (batch, label_size) whatever L is; the pooled vector is 1024 wide, every
\* fc layer takes the width the previous one produces, the classifier takes
\* the last fc width (1024 when fc_size is empty), so the head never rejects
\* what the body produced.
C2_PredictorShape ==
    applied = "predictor" =>
        LET net == CallPredictor(probe.n_in_channel, probe.fc_size, probe.label_size)
            fcl == net.fclayers
            pooled == Pooled
        IN  /\ IsOk(out) => out.shape = << probe.batch, probe.label_size >>
            /\ IsOk(pooled) => /\ pooled.shape = << probe.batch, 1024 >>
                               /\ IsOk(out)
            /\ Len(fcl) = 2 * Len(probe.fc_size)
            /\ \A j \in 1..Len(probe.fc_size) :
                  /\ fcl[2 * j - 1].cin =
                        (IF j = 1 THEN 1024 ELSE fcl[2 * j - 3].cout)
                  /\ fcl[2 * j - 1].cout = probe.fc_size[j]
            /\ net.classifier.cin =
                  (IF probe.fc_size = <<>> THEN 1024
                   ELSE probe.fc_size[Len(probe.fc_size)])
            /\ net.classifier.cout = probe.label_size

C2_Witness ==
    /\ applied = "predictor"
    /\ IsOk(out)
    /\ Len(probe.fc_size) = 2 /\ probe.fc_size[1] # probe.fc_size[2]
    /\ probe.label_size # probe.fc_size[2]
    /\ out.shape = << probe.batch, probe.label_size >>

\* The four residual blocks of self.features, in order.
Blocks(features) == SubSeq(features, 5, 8)

EmbedWidths(blocks) == [i \in 1..Len(blocks) |-> blocks[i].convs[1].cout]

InWidths(blocks) == [i \in 1..Len(blocks) |-> blocks[i].cin]

OutWidths(blocks) == [i \in 1..Len(blocks) |-> blocks[i].cout]

\* Each block takes the channel count the previous stage produces, and the
\* tensors flowing through carry the declared channel counts.
BlocksChained(features) ==
    LET blocks == Blocks(features)
        ins == InWidths(blocks)
        outs == OutWidths(blocks)
    IN  /\ ins[1] = features[1].cout
        /\ \A i \in 2..Len(blocks) : ins[i] = outs[i - 1]
        /\ IsOk(out) =>
              \A i \in 1..Len(blocks) : stages[4 + i].shape[2] = outs[i]

\* C7 as stated: embed widths 32, 128, 256, 512 yielding output channel
\* counts 128, 256, 512, 1024, each block fed by the previous block's output.
C7_EmbedWidthsAsStated ==
    applied = "predictor" =>
        LET features == Features(probe.n_in_channel)
            blocks == Blocks(features)
        IN  /\ EmbedWidths(blocks) = << 32, 128, 256, 512 >>
            /\ OutWidths(blocks) = << 128, 256, 512, 1024 >>
            /\ BlocksChained(features)

\* C7 amended: the hard-coded embed widths are 32, 64, 128, 256; the input
\* channel counts are 32, 128, 256, 512; the output channel counts are
\* 128, 256, 512, 1024 (four times the embed width), each block's input
\* channel count being the previous stage's output channel count.
C7_BlockSchedule ==
    applied = "predictor" =>
        LET features == Features(probe.n_in_channel)
            blocks == Blocks(features)
        IN  /\ { i \in 1..Len(features) : features[i].kind = "block" } = 5..8
            /\ EmbedWidths(blocks) = << 32, 64, 128, 256 >>
            /\ InWidths(blocks) = << 32, 128, 256, 512 >>
            /\ OutWidths(blocks) = << 128, 256, 512, 1024 >>
            /\ BlocksChained(features)

C7_Witness ==
    /\ applied = "predictor"
    /\ IsOk(out)
    /\ stages[6].shape[2] = 256
    /\ stages[8].shape[2] = 1024

ConvOrPoolNames == {"conv0", "pool0", "conv1", "conv2", "conv3", "shortcut"}

NormNames == {"norm0", "norm1", "norm2", "norm3"}

\* Temporal length after the first i layers of self.features.
StageLen(i) == stages[i].shape[3]

\* C9 as stated: the stem convolution is the only stage that can reject an
\* input for being too short; it rejects exactly L < 5 and every L >= 5
\* passes through all stages.
C9_OnlyStemRejectsAsStated ==
    applied = "predictor" =>
        /\ out.err = "conv0" <=> probe.L < 5
        /\ probe.L >= 5 => IsOk(out)

\* C9 amended: the stem convolution is the only convolution or pooling stage
\* that can reject an input for being too short, and it rejects exactly
\* L < 5.  For L >= 5 the length after the stem convolution is
\* floor((L-5)/2)+1 >= 1 and the max-pool and each block map n to
\* ceil(n/2) >= 1, so no later convolution or pooling fails.  The only other
\* rejection is by a batch-normalisation layer, in training mode with
\* batch 1, when the length reaching it is 1: that is every L < 69.
C9_OnlyStemConvRejects ==
    applied = "predictor" =>
        /\ out.err = "conv0" <=> probe.L < 5
        /\ out.err \notin (ConvOrPoolNames \ {"conv0"})
        /\ out.err \notin {"avgpool", "fc", "classifier"}
        /\ probe.L >= 5 =>
              /\ StageLen(1) = ((probe.L - 5) \div 2) + 1
              /\ IsOk(stages[4]) => StageLen(4) = CeilHalf(StageLen(1))
              /\ \A i \in 5..8 :
                    IsOk(stages[i]) => StageLen(i) = CeilHalf(StageLen(i - 1))
              /\ \A i \in 1..8 : IsOk(stages[i]) => StageLen(i) >= 1
              /\ ~probe.training => \A i \in 1..8 : IsOk(stages[i])
              /\ IsOk(out) <=> ~(probe.training /\ probe.batch = 1 /\ probe.L < 69)
              /\ ~IsOk(out) => out.err \in NormNames

C9_Witness ==
    /\ applied = "predictor"
    /\ probe.L = 5
    /\ IsOk(out)
    /\ StageLen(8) = 1


(***************************************************************************)
(* The controller, DeepRES1D.                                              *)
(*                                                                         *)
(* A constructor argument is a Python value: its type t and its value v.   *)
(* Floats are counted in units of 1e-4.  expmodel_id, learn_ratio and      *)
(* gpu_ids are stored but never validated nor read by this file; they are  *)
(* left out.                                                               *)
(***************************************************************************)
Val(t, v) == [t |-> t, v |-> v]

\* isinstance(x, int): bool is a subclass of int.
IsInt(x) == x.t \in {"int", "bool"}

IsFloat(x) == x.t = "float"

IsStr(x) == x.t = "str"

IsBool(x) == x.t = "bool"

IsList(x) == x.t = "list"

\* The defaults of DeepRES1D.__init__.
DefaultArgs ==
    [n_epoch        |-> Val("int", 100),
     n_batchsize    |-> Val("int", 5),
     fc_size        |-> Val("list", << 64, 16 >>),
     weight_decay   |-> Val("float", 1),
     n_epoch_saved  |-> Val("int", 1),
     loss_name      |-> Val("str", "L1LossSoftmax"),
     aggregate      |-> Val("str", "sum"),
     optimizer_name |-> Val("str", "adam"),
     use_gpu        |-> Val("bool", 0)]

\* The arguments a caller passes.
ArgInputs ==
    [n_epoch        : { Val("int", 0), Val("int", 1), Val("int", MaxEpoch),
                        Val("float", MaxEpoch) },
     n_batchsize    : { Val("int", 0), Val("int", MaxBatch), Val("float", MaxBatch) },
     fc_size        : { Val("list", << 64, 16 >>), Val("list", <<>>),
                        Val("tuple", << 64, 16 >>) },
     weight_decay   : { Val("float", -1), Val("float", 0), Val("int", 0) },
     n_epoch_saved  : { Val("int", 0), Val("int", 1), Val("int", MaxEpoch - 1),
                        Val("int", MaxEpoch), Val("float", 1) },
     loss_name      : { Val("str", "L1LossSoftmax"), Val("int", "") },
     aggregate      : { Val("str", "sum"), Val("str", "avg"), Val("str", "max"),
                        Val("int", "") },
     optimizer_name : { Val("str", "adam"), Val("str", "sgd") },
     use_gpu        : { Val("bool", 0), Val("bool", 1), Val("int", 1) }]

\* _args_check accepting n_epoch_saved = n_epoch.
ArgsCheckSavedLeq(a) ==
    IF ~(IsInt(a.n_batchsize) /\ a.n_batchsize.v > 0)
    THEN "fill in correct n_batchsize (int, >0)"
    ELSE IF ~(IsInt(a.n_epoch) /\ a.n_epoch.v > 0)
    THEN "fill in correct n_epoch (int, >0)"
    ELSE IF ~(IsFloat(a.weight_decay) /\ a.weight_decay.v >= 0)
    THEN "fill in correct weight_decay (float, >=0.)"
    ELSE IF ~(IsInt(a.n_epoch_saved) /\ a.n_epoch_saved.v > 0
              /\ a.n_epoch_saved.v <= a.n_epoch.v)
    THEN "fill in correct n_epoch (int, >0 and <{0}).format(self.n_epoch)"
    ELSE IF ~(IsStr(a.aggregate) /\ a.aggregate.v \in {"sum", "avg"})
    THEN "fill in correct aggregate (str, ['sum','avg'])"
    ELSE IF ~(IsStr(a.optimizer_name) /\ a.optimizer_name.v \in {"adam"})
    THEN "fill in correct optimizer_name (str, ['adam'])"
    ELSE IF ~IsBool(a.use_gpu)
    THEN "fill in correct use_gpu (bool)"
    ELSE IF ~IsStr(a.loss_name)
    THEN "fill in correct optimizer_name (str)"
    ELSE IF ~IsList(a.fc_size)
    THEN "fill in correct fc_size (list, [64, 16])"
    ELSE ""

\* _args_check without the assertion on aggregate.
ArgsCheckNoAggregate(a) ==
    IF ~(IsInt(a.n_batchsize) /\ a.n_batchsize.v > 0)
    THEN "fill in correct n_batchsize (int, >0)"
    ELSE IF ~(IsInt(a.n_epoch) /\ a.n_epoch.v > 0)
    THEN "fill in correct n_epoch (int, >0)"
    ELSE IF ~(IsFloat(a.weight_decay) /\ a.weight_decay.v >= 0)
    THEN "fill in correct weight_decay (float, >=0.)"
    ELSE IF ~(IsInt(a.n_epoch_saved) /\ a.n_epoch_saved.v > 0
              /\ a.n_epoch_saved.v < a.n_epoch.v)
    THEN "fill in correct n_epoch (int, >0 and <{0}).format(self.n_epoch)"
    ELSE IF ~(IsStr(a.optimizer_name) /\ a.optimizer_name.v \in {"adam"})
    THEN "fill in correct optimizer_name (str, ['adam'])"
    ELSE IF ~IsBool(a.use_gpu)
    THEN "fill in correct use_gpu (bool)"
    ELSE IF ~IsStr(a.loss_name)
    THEN "fill in correct optimizer_name (str)"
    ELSE IF ~IsList(a.fc_size)
    THEN "fill in correct fc_size (list, [64, 16])"
    ELSE ""

\* DeepRES1D._args_check up to the last assert: the message of the first
\* assertion that fails, "" when all pass.
ArgsCheck(a) ==
    IF ~(IsInt(a.n_batchsize) /\ a.n_batchsize.v > 0)
    THEN "fill in correct n_batchsize (int, >0)"
    ELSE IF ~(IsInt(a.n_epoch) /\ a.n_epoch.v > 0)
    THEN "fill in correct n_epoch (int, >0)"
    ELSE IF ~(IsFloat(a.weight_decay) /\ a.weight_decay.v >= 0)
    THEN "fill in correct weight_decay (float, >=0.)"
    ELSE IF ~(IsInt(a.n_epoch_saved) /\ a.n_epoch_saved.v > 0
              /\ a.n_epoch_saved.v < a.n_epoch.v)
    THEN "fill in correct n_epoch (int, >0 and <{0}).format(self.n_epoch)"
    ELSE IF ~(IsStr(a.aggregate) /\ a.aggregate.v \in {"sum", "avg"})
    THEN "fill in correct aggregate (str, ['sum','avg'])"
    ELSE IF ~(IsStr(a.optimizer_name) /\ a.optimizer_name.v \in {"adam"})
    THEN "fill in correct optimizer_name (str, ['adam'])"
    ELSE IF ~IsBool(a.use_gpu)
    THEN "fill in correct use_gpu (bool)"
    ELSE IF ~IsStr(a.loss_name)
    THEN "fill in correct optimizer_name (str)"
    ELSE IF ~IsList(a.fc_size)
    THEN "fill in correct fc_size (list, [64, 16])"
    ELSE ""

\* BaseControler._get_device: the device and whether the run spans several
\* devices.  Without use_gpu the CPU; with it one GPU or several.
GetDevice(a) ==
    IF a.use_gpu.v = 1
    THEN { [device |-> "cuda", dataparallal |-> FALSE],
           [device |-> "cuda", dataparallal |-> TRUE] }
    ELSE { [device |-> "cpu", dataparallal |-> FALSE] }

(***************************************************************************)
(* The persisted model configuration: a record written as a flat sequence  *)
(* <<in_channel, number of fc sizes, fc sizes..., label_size>>.            *)
(***************************************************************************)
Config(in_channel, fc_size, n_label) ==
    [in_channel |-> in_channel, fc_size |-> fc_size, label_size |-> n_label]

NoFile == <<>>

\* BaseControler._save_predictor_config
EncodeConfig(c) == << c.in_channel, Len(c.fc_size) >> \o c.fc_size \o << c.label_size >>

\* BaseControler._load_predictor_config
DecodeConfig(f) ==
    Config(f[1], SubSeq(f, 3, 2 + f[2]), f[3 + f[2]])

NoPredictor == [built |-> FALSE, config |-> Config(0, <<>>, 0), wraps |-> 0]

\* callPredictor(**_config).to(self.device)
NewPredictor(c) == [built |-> TRUE, config |-> c, wraps |-> 0]

\* The network behind a predictor instance.
Net(pred) == CallPredictor(pred.config.in_channel, pred.config.fc_size,
                           pred.config.label_size)

\* A _config whose in_channel is taken from the training descriptor.
BuildConfigTrainChannel(n_channel_, fc_size_, label_size_) ==
    Config(call.train.feat_n, fc_size_, label_size_)

\* _build_model: the _config dictionary.
BuildConfig(n_channel_, fc_size_, label_size_) ==
    Config(n_channel_, fc_size_, label_size_)

\* load_model: a predictor built with the default fc_size whatever was read.
LoadPredictorDefaultFc(predictor_config) ==
    NewPredictor(Config(predictor_config.in_channel, << 64, 16 >>,
                        predictor_config.label_size))

\* load_model: callPredictor(**predictor_config).to(self.device)
LoadPredictor(predictor_config) == NewPredictor(predictor_config)

NoLoader == [built |-> FALSE, batch_size |-> 0, drop_last |-> FALSE, shuffle |-> FALSE]

\* A loader that shuffles whatever dtype is.
LoaderAlwaysShuffle(n_batchsize, dtype) ==
    [built |-> TRUE, batch_size |-> n_batchsize, drop_last |-> TRUE,
     shuffle |-> TRUE]

\* torch.utils.data.DataLoader(...) as _get_reader builds it.
Loader(n_batchsize, dtype) ==
    [built |-> TRUE, batch_size |-> n_batchsize, drop_last |-> TRUE,
     shuffle |-> IF dtype = "train" THEN TRUE ELSE FALSE]

NoCriterion == [built |-> FALSE, task |-> "", loss_name |-> "", aggregate |-> ""]

\* callLoss(task, loss_name, aggregate)
CallLoss(task, loss_name, aggregate) ==
    [built |-> TRUE, task |-> task, loss_name |-> loss_name, aggregate |-> aggregate]

\* A dataset descriptor, as far as the controller reads it.
Descriptors == [feat_n : 1..MaxFeat, label_n : {1, MaxLabel}]

NoCall == [train |-> [feat_n |-> 0, label_n |-> 0],
           valid |-> [feat_n |-> 0, label_n |-> 0],
           task  |-> ""]

selfvars == << args, error, device, dataparallal, svars >>

CtlInit ==
    /\ pc = "new"
    /\ args = DefaultArgs
    /\ error = ""
    /\ device = "unset"
    /\ dataparallal = FALSE
    /\ is_loadmodel = FALSE
    /\ task_type = "None"
    /\ label_size = 0
    /\ n_channel = 0
    /\ predictor = NoPredictor
    /\ criterion = NoCriterion
    /\ optimizer = ""
    /\ train_reader = NoLoader
    /\ valid_reader = NoLoader
    /\ call = NoCall
    /\ config_file = NoFile
    /\ built_config = Config(0, <<>>, 0)
    /\ last = "none"

\* DeepRES1D.__init__: store the hyperparameters, then _args_check, whose
\* last statement resolves the device.
Construct ==
    /\ pc = "new"
    /\ \E a \in ArgInputs :
        /\ args' = a
        /\ IF ArgsCheck(a) = ""
           THEN /\ \E d \in GetDevice(a) :
                      /\ device' = d.device
                      /\ dataparallal' = d.dataparallal
                /\ error' = ""
                /\ pc' = "idle"
           ELSE /\ error' = ArgsCheck(a)
                /\ pc' = "failed"
                /\ UNCHANGED << device, dataparallal >>
        /\ UNCHANGED << is_loadmodel, task_type, label_size, n_channel, predictor,
                        criterion, optimizer, train_reader, valid_reader, call,
                        config_file, built_config, last, svars >>

\* fit, line 266: record the task type.
Fit ==
    /\ pc = "idle"
    /\ \E train_data \in Descriptors, valid_data \in Descriptors,
          assign_task_type \in {"None", "multiclass"} :
        /\ is_loadmodel /\ dataparallal => predictor.wraps < MaxWrap
        /\ task_type' = assign_task_type
        /\ call' = [train |-> train_data, valid |-> valid_data,
                     task |-> assign_task_type]
        /\ last' = "fit running"
        /\ pc' = "fit_data_check"
        /\ UNCHANGED << selfvars, is_loadmodel, label_size, n_channel, predictor,
                        criterion, optimizer, train_reader, valid_reader,
                        config_file, built_config >>

\* fit returns or raises: its locals go away.
EndFit(outcome) ==
    /\ pc' = "idle"
    /\ last' = outcome
    /\ train_reader' = NoLoader
    /\ valid_reader' = NoLoader
    /\ call' = NoCall

\* fit, line 267: BaseControler._data_check on both descriptors.  It raises
\* on descriptors it finds malformed (ok = FALSE) or disagreeing on the
\* label count; otherwise it sets the label count and, when no task type
\* was assigned, the one it infers from the labels ("inferred").
DataCheck ==
    /\ pc = "fit_data_check"
    /\ \E ok \in BOOLEAN :
        /\ IF ok /\ call.train.label_n = call.valid.label_n
           THEN /\ label_size' = call.train.label_n
                /\ task_type' = IF task_type = "None" THEN "inferred" ELSE task_type
                /\ pc' = "fit_train_reader"
                /\ UNCHANGED << train_reader, valid_reader, call, last >>
           ELSE /\ EndFit("fit raised in _data_check")
                /\ UNCHANGED << label_size, task_type >>
        /\ UNCHANGED << selfvars, is_loadmodel, n_channel, predictor, criterion,
                        optimizer, config_file, built_config >>

\* fit, line 268: _get_reader(train_data, 'train').  The dataset reader may
\* raise (ok = FALSE); otherwise it reports the channel count of the data.
GetTrainReader ==
    /\ pc = "fit_train_reader"
    /\ \E ok \in BOOLEAN :
        /\ IF ok
           THEN /\ n_channel' = call.train.feat_n
                /\ train_reader' = Loader(args.n_batchsize.v, "train")
                /\ pc' = "fit_valid_reader"
                /\ UNCHANGED << valid_reader, call, last >>
           ELSE /\ EndFit("fit raised in _get_reader")
                /\ UNCHANGED n_channel
        /\ UNCHANGED << selfvars, is_loadmodel, task_type, label_size, predictor,
                        criterion, optimizer, config_file, built_config >>

\* fit, line 269: _get_reader(valid_data, 'valid').
GetValidReader ==
    /\ pc = "fit_valid_reader"
    /\ \E ok \in BOOLEAN :
        /\ IF ok
           THEN /\ n_channel' = call.valid.feat_n
                /\ valid_reader' = Loader(args.n_batchsize.v, "valid")
                /\ pc' = "fit_build_model"
                /\ UNCHANGED << train_reader, call, last >>
           ELSE /\ EndFit("fit raised in _get_reader")
                /\ UNCHANGED n_channel
        /\ UNCHANGED << selfvars, is_loadmodel, task_type, label_size, predictor,
                        criterion, optimizer, config_file, built_config >>

\* The predictor _build_model leaves: a fresh one unless a model was loaded,
\* wrapped for data-parallel execution when the run spans several devices.
BuiltPredictor ==
    LET p == IF is_loadmodel = FALSE
             THEN NewPredictor(BuildConfig(n_channel, args.fc_size.v, label_size))
             ELSE predictor
    IN  IF dataparallal THEN [p EXCEPT !.wraps = @ + 1] ELSE p

\* fit, line 270: _build_model.  The loss collaborator may reject the loss
\* name (loss_ok = FALSE); the predictor is built and its configuration
\* persisted before that.
BuildModel ==
    /\ pc = "fit_build_model"
    /\ \E loss_ok \in BOOLEAN :
        /\ predictor' = BuiltPredictor
        /\ IF is_loadmodel = FALSE
           THEN /\ config_file' = EncodeConfig(BuildConfig(n_channel, args.fc_size.v, label_size))
                /\ built_config' = BuildConfig(n_channel, args.fc_size.v, label_size)
           ELSE UNCHANGED << config_file, built_config >>
        /\ IF loss_ok
           THEN /\ criterion' = CallLoss(task_type, args.loss_name.v, args.aggregate.v)
                /\ optimizer' = args.optimizer_name.v
                /\ pc' = "fit_fit_model"
                /\ UNCHANGED << train_reader, valid_reader, call, last >>
           ELSE /\ EndFit("fit raised in _build_model")
                /\ UNCHANGED << criterion, optimizer >>
        /\ UNCHANGED << selfvars, is_loadmodel, task_type, label_size, n_channel >>

\* fit, line 271: BaseControler._fit_model, the training loop; it completes
\* or raises.
FitModel ==
    /\ pc = "fit_fit_model"
    /\ \E ok \in BOOLEAN :
        /\ EndFit(IF ok THEN "fit done" ELSE "fit raised in _fit_model")
        /\ UNCHANGED << selfvars, is_loadmodel, task_type, label_size, n_channel,
                        predictor, criterion, optimizer, config_file, built_config >>

\* load_model: read the persisted configuration (raises when there is
\* none), rebuild the predictor, restore the weights (raises when the
\* checkpoint is missing or does not fit: weights_ok = FALSE).
LoadModel ==
    /\ pc = "idle"
    /\ \E weights_ok \in BOOLEAN :
        /\ IF config_file = NoFile
           THEN /\ last' = "load_model raised in _load_predictor_config"
                /\ UNCHANGED << predictor, is_loadmodel >>
           ELSE /\ predictor' = LoadPredictor(DecodeConfig(config_file))
                /\ IF weights_ok
                   THEN /\ is_loadmodel' = TRUE
                        /\ last' = "load_model done"
                   ELSE /\ last' = "load_model raised in _load_model"
                        /\ UNCHANGED is_loadmodel
        /\ UNCHANGED << pc, selfvars, task_type, label_size, n_channel, criterion,
                        optimizer, train_reader, valid_reader, call, config_file,
                        built_config >>

Next ==
    \/ Construct
    \/ Fit
    \/ DataCheck
    \/ GetTrainReader
    \/ GetValidReader
    \/ BuildModel
    \/ FitModel
    \/ LoadModel

vars == << cvars, svars >>

\* No controller constructed yet, no probe in flight.
Init == CtlInit /\ ShapeIdle

\* The controller's life cycle.
Spec == Init /\ [][Next]_vars

\* No controller constructed yet, a probe tensor chosen.
ProbeInit == CtlInit /\ ShapeInit

\* The networks applied to probe tensors.
ShapeSpec == ProbeInit /\ [][ShapeNext]_vars


(***************************************************************************)
(* Properties of the controller, checked under Spec.                       *)
(***************************************************************************)
Attempted == pc # "new"

Constructed == pc \notin {"new", "failed"}

\* The constraints on the hyperparameters, one by one.
BatchSizeValid(a) == IsInt(a.n_batchsize) /\ a.n_batchsize.v > 0

EpochValid(a) == IsInt(a.n_epoch) /\ a.n_epoch.v > 0

DecayViolated(a) == a.weight_decay.v < 0

DecayValid(a) == IsFloat(a.weight_decay) /\ a.weight_decay.v >= 0

EpochSavedValid(a) ==
    IsInt(a.n_epoch_saved) /\ 0 < a.n_epoch_saved.v /\ a.n_epoch_saved.v < a.n_epoch.v

AggregateValid(a) == a.aggregate \in { Val("str", "sum"), Val("str", "avg") }

OptimizerValid(a) == a.optimizer_name = Val("str", "adam")

UseGpuValid(a) == IsBool(a.use_gpu)

LossNameValid(a) == IsStr(a.loss_name)

FcSizeValid(a) == IsList(a.fc_size)

\* Every hyperparameter other than n_epoch_saved is valid.
OthersValid(a) ==
    /\ BatchSizeValid(a) /\ EpochValid(a) /\ DecayValid(a) /\ AggregateValid(a)
    /\ OptimizerValid(a) /\ UseGpuValid(a) /\ LossNameValid(a) /\ FcSizeValid(a)

\* C3: construction with n_epoch_saved >= n_epoch fails; with the other
\* hyperparameters valid it succeeds exactly when n_epoch_saved is an
\* integer with 0 < n_epoch_saved < n_epoch, and otherwise fails on the
\* n_epoch_saved assertion.
C3_EpochSavedRange ==
    Attempted =>
        /\ args.n_epoch_saved.v >= args.n_epoch.v => pc = "failed"
        /\ OthersValid(args) =>
              /\ Constructed <=> EpochSavedValid(args)
              /\ ~EpochSavedValid(args) =>
                    error = "fill in correct n_epoch (int, >0 and <{0}).format(self.n_epoch)"

C3_Witness ==
    /\ pc = "failed"
    /\ OthersValid(args)
    /\ args.n_epoch_saved = args.n_epoch

\* C4: a controller for a single training epoch can be constructed: with
\* n_epoch = 1 and the other hyperparameters valid, some n_epoch_saved
\* passes validation.
C4_OneEpochConstructible ==
    (Attempted /\ args.n_epoch = Val("int", 1) /\ OthersValid(args)) =>
        \E n \in 0..MaxEpoch :
            ArgsCheck([args EXCEPT !.n_epoch_saved = Val("int", n)]) = ""

\* A hyperparameter violates its constraint.
Violates(a) ==
    \/ ~BatchSizeValid(a) \/ ~EpochValid(a) \/ DecayViolated(a)
    \/ ~EpochSavedValid(a) \/ ~AggregateValid(a) \/ ~OptimizerValid(a)
    \/ ~UseGpuValid(a) \/ ~LossNameValid(a) \/ ~FcSizeValid(a)

\* Nothing of fit or load_model has happened on the controller.
Untouched ==
    /\ last = "none" /\ call = NoCall
    /\ task_type = "None" /\ label_size = 0 /\ n_channel = 0
    /\ ~predictor.built /\ ~criterion.built /\ optimizer = ""
    /\ ~train_reader.built /\ ~valid_reader.built
    /\ config_file = NoFile

\* C5: whenever a hyperparameter violates its constraint the constructor
\* fails with a message, the device is never resolved, and no step of fit or
\* load_model ever happens on that controller.
C5_FailFast ==
    /\ Violates(args) =>
          /\ pc = "failed" /\ error # ""
          /\ device = "unset"
          /\ Untouched
    /\ pc = "failed" => device = "unset" /\ Untouched /\ error # ""
    /\ Constructed => device # "unset" /\ error = ""

C5_Witness ==
    /\ pc = "failed"
    /\ args.aggregate = Val("str", "max")
    /\ OthersValid([args EXCEPT !.aggregate = Val("str", "sum")])
    /\ EpochSavedValid(args)
    /\ device = "unset"

LoadRead == last \in {"load_model done", "load_model raised in _load_model"}

InFit == pc \in {"fit_data_check", "fit_train_reader", "fit_valid_reader",
                 "fit_build_model", "fit_fit_model"}

\* What holds at each position inside fit.
FitPositions ==
    /\ InFit => call # NoCall /\ last = "fit running"
    /\ pc = "fit_data_check" => task_type = call.task
    /\ pc \in {"fit_data_check", "fit_train_reader"} =>
          ~train_reader.built /\ ~valid_reader.built
    /\ pc \in {"fit_train_reader", "fit_valid_reader", "fit_build_model",
               "fit_fit_model"} =>
          /\ label_size = call.train.label_n
          /\ task_type # "None"
    /\ pc = "fit_valid_reader" =>
          /\ train_reader = [built |-> TRUE, batch_size |-> args.n_batchsize.v,
                             drop_last |-> TRUE, shuffle |-> TRUE]
          /\ ~valid_reader.built
          /\ n_channel = call.train.feat_n
    /\ pc \in {"fit_build_model", "fit_fit_model"} =>
          /\ train_reader = [built |-> TRUE, batch_size |-> args.n_batchsize.v,
                             drop_last |-> TRUE, shuffle |-> TRUE]
          /\ valid_reader = [built |-> TRUE, batch_size |-> args.n_batchsize.v,
                             drop_last |-> TRUE, shuffle |-> FALSE]
          /\ n_channel = call.valid.feat_n
    /\ pc = "fit_fit_model" =>
          /\ predictor.built
          /\ criterion = CallLoss(task_type, args.loss_name.v, args.aggregate.v)
          /\ optimizer = "adam"
    /\ predictor.built => predictor.config.in_channel \in 1..MaxFeat
    /\ ~InFit => ~train_reader.built /\ ~valid_reader.built

\* The order of the steps of fit, and what the steps before _build_model
\* leave alone.
FitSteps ==
    /\ (pc' # pc /\ pc' = "fit_data_check") => pc = "idle"
    /\ (pc' # pc /\ pc' = "fit_train_reader") => pc = "fit_data_check"
    /\ (pc' # pc /\ pc' = "fit_valid_reader") => pc = "fit_train_reader"
    /\ (pc' # pc /\ pc' = "fit_build_model") => pc = "fit_valid_reader"
    /\ (pc' # pc /\ pc' = "fit_fit_model") => pc = "fit_build_model"
    /\ pc \in {"fit_data_check", "fit_train_reader", "fit_valid_reader"} =>
          /\ predictor' = predictor /\ config_file' = config_file
          /\ criterion' = criterion /\ optimizer' = optimizer
    /\ last' \in {"fit raised in _data_check", "fit raised in _get_reader"} =>
          /\ predictor' = predictor /\ config_file' = config_file
    /\ (pc = "idle" /\ pc' = "fit_data_check") =>
          /\ task_type' = call'.task
          /\ predictor' = predictor /\ config_file' = config_file

\* C8: within every fit call the task type is recorded, then the descriptors
\* are validated, then the training loader (shuffling) and the validation
\* loader (not shuffling) are built, both dropping the trailing partial
\* batch, then the model is built, then the training loop runs; no predictor
\* is built before a reader has set the channel count, the training loop
\* starts only with predictor, loss and optimizer in place, and a failure in
\* validation or reader construction builds no predictor and persists no
\* configuration.
C8_FitOrder == []FitPositions /\ [][FitSteps]_vars

C8_Witness ==
    /\ pc = "fit_fit_model"
    /\ ~is_loadmodel
    /\ train_reader.shuffle /\ ~valid_reader.shuffle
    /\ predictor.config.in_channel = n_channel

\* C10: when no prior model was loaded, the predictor and the persisted
\* configuration that fit builds take in_channel from valid_data, the last
\* descriptor ingested; it is the training data's channel count only when
\* the two descriptors agree.
C10_ChannelFromValid ==
    (pc = "fit_fit_model" /\ ~is_loadmodel) =>
        /\ predictor.config.in_channel = call.valid.feat_n
        /\ DecodeConfig(config_file).in_channel = call.valid.feat_n
        /\ Net(predictor).features[1].cin = call.valid.feat_n
        /\ predictor.config.in_channel = call.train.feat_n
              <=> call.train.feat_n = call.valid.feat_n

C10_Witness ==
    /\ pc = "fit_fit_model" /\ ~is_loadmodel
    /\ call.train.feat_n # call.valid.feat_n
    /\ predictor.config.in_channel = call.valid.feat_n
    /\ DecodeConfig(config_file).in_channel # call.train.feat_n

=============================================================================
